---- MODULE Spec2Model ----
(***************************************************************************)
(* LoanRestructure Pro (src/src/App.jsx): the amortization calculator      *)
(* (calcEMI, calcTotalInterest), the strategy simulator                    *)
(* (simulateRestructure), the report's choice of the best strategy         *)
(* (generateReportHTML) and the state of the App component with its        *)
(* handlers (addLoan, removeLoan, updateLoan, runAnalysis, downloadReport  *)
(* and the inline onClick handlers).                                       *)
(*                                                                         *)
(* Numbers.  The program computes with IEEE doubles; the model computes    *)
(* with scaled integers that stay inside TLC's 32-bit range:               *)
(*   - an amount is a whole number of AMOUNT units of 10,000 rupees        *)
(*     (1500000 is 150);                                                   *)
(*   - an annual rate is a whole number of hundredths of a percent         *)
(*     (11.5 is 1150, 9.75 is 975);                                        *)
(*   - a tenure is a whole number of months;                               *)
(*   - every derived real (monthly rate, power, EMI, interest, payout,     *)
(*     savings) is a fixed-point number: the integer is the real times     *)
(*     SCALE, and a quotient is floored to it.                             *)
(* Infinity and NaN are outside the model: no rate of the model is so      *)
(* small that 1 + r rounds to 1, or makes (1 + r)^n equal to 1.            *)
(***************************************************************************)
EXTENDS Integers, Sequences, FiniteSets, TLC

VARIABLES
    step,              \* useState("landing"): "landing" | "input" | "results"
    loans,             \* useState([...]): the portfolio, a sequence of loans
    results,           \* useState([]): the StrategyResult array
    selectedStrategy,  \* useState(null): a strategy id, or "null"
    animateIn,         \* useState(false)
    timerPending,      \* whether some setTimeout(() => setAnimateIn(true), 50)
                       \*   callback has still to run
    ops,               \* how many times addLoan and updateLoan have run
    analysis,          \* when the handler that ran last was runAnalysis: "returned"
                       \*   (its early return) or "analysed"; else "none"
    emptyInvocation,   \* whether simulateRestructure was ever entered with no loans
    report,            \* the report, when the handler that ran last was downloadReport
    call,              \* the last invocation of simulateRestructure as a function
    calc               \* the last invocation of calcEMI / calcTotalInterest

vars == <<step, loans, results, selectedStrategy, animateIn, timerPending, ops, analysis,
         emptyInvocation, report, call, calc>>

uiVars == <<step, results, selectedStrategy, animateIn, timerPending, ops, analysis,
           emptyInvocation, report>>

(***************************************************************************)
(* Arithmetic                                                              *)
(***************************************************************************)

\* fixed-point scale of the derived reals: four decimal places
SCALE == 100 * 100

\* hundredths of a percent in one percent (the unit of a rate)
RATE_UNIT == 10 * 10

\* rupees in one unit of an amount
AMOUNT_UNIT == 100 * 100

Max(a, b) == IF a >= b THEN a ELSE b

\* Math.round(n / d) for d > 0: the nearest integer, halves towards +Infinity
RoundDiv(n, d) == (2 * n + d) \div (2 * d)

\* Math.pow(base, n) for an integer n >= 1, base and result fixed-point,
\* by repeated squaring
RECURSIVE pow(_, _)
pow(base, n) ==
    IF n <= 0 THEN SCALE
    ELSE IF n % 2 = 0
         THEN LET half == pow(base, n \div 2) IN (half * half) \div SCALE
         ELSE (pow(base, n - 1) * base) \div SCALE

(***************************************************************************)
(* Constants & Config                                                      *)
(***************************************************************************)

LOAN_TYPES ==
    << [id |-> "term",    label |-> "Term Loan",         defaultRate |-> 1150, defaultTenure |-> 60, defaultAmount |-> 150],
       [id |-> "ccod",    label |-> "CC/OD Facility",    defaultRate |-> 1350, defaultTenure |-> 12, defaultAmount |-> 80],
       [id |-> "mudra",   label |-> "MUDRA Loan",        defaultRate |-> 1000, defaultTenure |-> 36, defaultAmount |-> 50],
       [id |-> "vehicle", label |-> "Vehicle/Equipment", defaultRate |-> 1200, defaultTenure |-> 48, defaultAmount |-> 120],
       [id |-> "working", label |-> "Working Capital",   defaultRate |-> 1400, defaultTenure |-> 24, defaultAmount |-> 60] >>

RESTRUCTURE_STRATEGIES ==
    << [id |-> "prepay_highest",   label |-> "Prepay Highest Rate First"],
       [id |-> "consolidate",      label |-> "Consolidate All Loans"],
       [id |-> "balance_transfer", label |-> "Balance Transfer"],
       [id |-> "extend_tenure",    label |-> "Extend Tenure + Reduce EMI"],
       [id |-> "hybrid",           label |-> "Hybrid Optimal"] >>

StrategyIds == {RESTRUCTURE_STRATEGIES[i].id : i \in 1..Len(RESTRUCTURE_STRATEGIES)}

\* LOAN_TYPES.find(t => t.id === type)?.label || fallback
LoanTypeLabel(type, fallback) ==
    IF \E i \in 1..Len(LOAN_TYPES) : LOAN_TYPES[i].id = type
    THEN LOAN_TYPES[CHOOSE i \in 1..Len(LOAN_TYPES) : LOAN_TYPES[i].id = type].label
    ELSE fallback

(***************************************************************************)
(* Financial Calculation Engine                                            *)
(***************************************************************************)

\* a calculator that returns the principal undivided at the rate 0
calcEMIZeroRateUndivided(principal, annualRate, tenureMonths) ==
    IF principal <= 0 \/ tenureMonths <= 0 THEN 0
    ELSE LET r == (annualRate * SCALE) \div (RATE_UNIT * 100 * 12)
         IN  IF r = 0 THEN principal * SCALE
             ELSE LET p == pow(SCALE + r, tenureMonths)
                  IN  (principal * r * p) \div (p - SCALE)

\* a calculator whose first line tests the tenure alone
calcEMITenureGuardOnly(principal, annualRate, tenureMonths) ==
    IF tenureMonths <= 0 THEN 0
    ELSE LET r == (annualRate * SCALE) \div (RATE_UNIT * 100 * 12)
         IN  IF r = 0 THEN (principal * SCALE) \div tenureMonths
             ELSE LET p == pow(SCALE + r, tenureMonths)
                  IN  (principal * r * p) \div (p - SCALE)

\* if (principal <= 0 || tenureMonths <= 0) return 0; ...
calcEMI(principal, annualRate, tenureMonths) ==
    IF principal <= 0 \/ tenureMonths <= 0 THEN 0
    ELSE LET r == (annualRate * SCALE) \div (RATE_UNIT * 100 * 12)
         IN  IF r = 0 THEN (principal * SCALE) \div tenureMonths
             ELSE LET p == pow(SCALE + r, tenureMonths)
                  IN  (principal * r * p) \div (p - SCALE)

\* an interest that is never reported below zero
calcTotalInterestFloored(principal, annualRate, tenureMonths) ==
    LET emi == calcEMI(principal, annualRate, tenureMonths)
    IN  Max(0, emi * tenureMonths - principal * SCALE)

calcTotalInterest(principal, annualRate, tenureMonths) ==
    LET emi == calcEMI(principal, annualRate, tenureMonths)
    IN  emi * tenureMonths - principal * SCALE

\* loans.reduce((s, l) => s + l.amount, 0)
RECURSIVE SumAmount(_)
SumAmount(ls) == IF ls = <<>> THEN 0 ELSE Head(ls).amount + SumAmount(Tail(ls))

\* ls.reduce((s, l) => s + calcTotalInterest(l.amount, l.rate, l.tenure), 0)
RECURSIVE SumInterest(_)
SumInterest(ls) ==
    IF ls = <<>> THEN 0
    ELSE calcTotalInterest(Head(ls).amount, Head(ls).rate, Head(ls).tenure) + SumInterest(Tail(ls))

\* ls.reduce((s, l) => s + calcEMI(l.amount, l.rate, l.tenure), 0)
RECURSIVE SumEMI(_)
SumEMI(ls) ==
    IF ls = <<>> THEN 0
    ELSE calcEMI(Head(ls).amount, Head(ls).rate, Head(ls).tenure) + SumEMI(Tail(ls))

\* loans.reduce((s, l) => s + l.rate * l.amount, 0)
RECURSIVE SumRateAmount(_)
SumRateAmount(ls) ==
    IF ls = <<>> THEN 0 ELSE Head(ls).rate * Head(ls).amount + SumRateAmount(Tail(ls))

\* a maximum that looks at the first loan only
firstTenure(ls) == Head(ls).tenure

\* Math.max(...loans.map(l => l.tenure)), loans non-empty
RECURSIVE MaxTenure(_)
MaxTenure(ls) ==
    IF Len(ls) = 1 THEN Head(ls).tenure ELSE Max(Head(ls).tenure, MaxTenure(Tail(ls)))

\* a sort by rate that is not stable: a loan goes in front of its equals
RECURSIVE insertBeforeEqualRates(_, _)
insertBeforeEqualRates(l, s) ==
    IF s = <<>> THEN <<l>>
    ELSE IF Head(s).rate > l.rate THEN <<Head(s)>> \o insertBeforeEqualRates(l, Tail(s))
    ELSE <<l>> \o s

\* Array.prototype.sort((a, b) => b.rate - a.rate): descending by rate, stable
RECURSIVE insertByRate(_, _)
insertByRate(l, s) ==
    IF s = <<>> THEN <<l>>
    ELSE IF Head(s).rate >= l.rate THEN <<Head(s)>> \o insertByRate(l, Tail(s))
    ELSE <<l>> \o s

RECURSIVE sortByRateDesc(_)
sortByRateDesc(ls) ==
    IF ls = <<>> THEN <<>>
    ELSE insertByRate(ls[Len(ls)], sortByRateDesc(SubSeq(ls, 1, Len(ls) - 1)))

\* Number.prototype.toFixed(1) of a rate: tenths of a percent
toFixed1(rate) == RoundDiv(rate, 10)

(***************************************************************************)
(* simulateRestructure: the five strategies.  Each yields the record       *)
(* [newInterest, newEMI, newTenure, details]; details is the template      *)
(* literal as the tuple of its fixed head and interpolated values, and     *)
(* the empty string is the empty tuple.                                    *)
(***************************************************************************)

\* a reduced tenure without the six-month floor
reducedTenureUnfloored(ls) ==
    LET highest == sortByRateDesc(ls)[1]
    IN  RoundDiv(highest.tenure * 65, 100)

\* case "prepay_highest": Math.max(6, Math.round(highest.tenure * 0.65))
reducedTenure(ls) ==
    LET highest == sortByRateDesc(ls)[1]
    IN  Max(6, RoundDiv(highest.tenure * 65, 100))

\* the (amount, rate, t) the reduce over sorted hands to calcTotalInterest
prepayTerms(ls) ==
    LET sorted == sortByRateDesc(ls)
    IN  [i \in 1..Len(sorted) |->
            [sorted[i] EXCEPT !.tenure = IF i = 1 THEN reducedTenure(ls) ELSE @]]

prepayHighest(ls, currentMonthlyEMI) ==
    LET highest == sortByRateDesc(ls)[1]
        monthlyFreed == (currentMonthlyEMI * 15) \div 100
    IN  [ newInterest |-> SumInterest(prepayTerms(ls)),
          newEMI      |-> currentMonthlyEMI + monthlyFreed,
          newTenure   |-> reducedTenure(ls),
          details     |-> << "Aggressively prepay",
                             LoanTypeLabel(highest.type, "highest rate loan"),
                             highest.rate,
                             highest.tenure - reducedTenure(ls) >> ]

\* case "consolidate".  With totalPrincipal = 0 the quotient is NaN or an
\* Infinity in the program and reaches only details (calcEMI returns 0 for a
\* principal of 0 whatever the rate): the model writes the rate 0 there.
weightedRateSimpleMean(ls) ==
    LET RECURSIVE SumRate(_)
        SumRate(q) == IF q = << >> THEN 0 ELSE Head(q).rate + SumRate(Tail(q))
    IN  SumRate(ls) \div Len(ls)

weightedRate(ls) ==
    IF SumAmount(ls) = 0 THEN 0 ELSE SumRateAmount(ls) \div SumAmount(ls)

\* a new rate without the floor of 9.5 %
consolidateRateUnclamped(ls) == weightedRate(ls) - 250

\* Math.max(9.5, weightedRate - 2.5)
consolidateRate(ls) == Max(950, weightedRate(ls) - 250)

consolidate(ls) ==
    LET totalPrincipal == SumAmount(ls)
        newRate == consolidateRate(ls)
        newTenure == RoundDiv(MaxTenure(ls) * 11, 10)
    IN  [ newInterest |-> calcTotalInterest(totalPrincipal, newRate, newTenure),
          newEMI      |-> calcEMI(totalPrincipal, newRate, newTenure),
          newTenure   |-> newTenure,
          details     |-> << "Consolidate", Len(ls), toFixed1(newRate),
                             toFixed1(weightedRate(ls)) >> ]

\* case "balance_transfer"
transferRate == 975

\* a filter that takes the loans at exactly 11 % too
highRateLoansInclusive(ls) == SelectSeq(ls, LAMBDA l : l.rate >= 1100)

highRateLoans(ls) == SelectSeq(ls, LAMBDA l : l.rate > 1100)

lowRateLoans(ls) == SelectSeq(ls, LAMBDA l : l.rate <= 1100)

\* the high-rate loans as handed to calcTotalInterest / calcEMI
transferTerms(ls) ==
    LET high == highRateLoans(ls)
    IN  [i \in 1..Len(high) |-> [high[i] EXCEPT !.rate = transferRate]]

balanceTransfer(ls, currentMonthlyEMI) ==
    LET newEMI == SumEMI(transferTerms(ls)) + SumEMI(lowRateLoans(ls))
        freed == currentMonthlyEMI - newEMI
        recoveryMonths ==
            IF freed > 0
            THEN RoundDiv(SumAmount(highRateLoans(ls)) * (SCALE \div 100), freed)
            ELSE 6
    IN  [ newInterest |-> SumInterest(transferTerms(ls)) + SumInterest(lowRateLoans(ls)),
          newEMI      |-> newEMI,
          newTenure   |-> MaxTenure(ls),
          details     |-> << "Transfer", Len(highRateLoans(ls)), transferRate,
                             recoveryMonths >> ]

\* tenures extended with Math.floor in place of Math.round
extendTermsTruncated(ls) ==
    [i \in 1..Len(ls) |-> [ls[i] EXCEPT !.tenure = (@ * 15) \div 10]]

\* case "extend_tenure": every loan at Math.round(l.tenure * 1.5)
extendTerms(ls) ==
    [i \in 1..Len(ls) |-> [ls[i] EXCEPT !.tenure = RoundDiv(@ * 15, 10)]]

extendTenure(ls) ==
    [ newInterest |-> SumInterest(extendTerms(ls)),
      newEMI      |-> SumEMI(extendTerms(ls)),
      newTenure   |-> RoundDiv(MaxTenure(ls) * 15, 10),
      details     |-> << "Extend all loan tenures by ~50%" >> ]

\* case "hybrid"
btRate == 975

\* Math.floor in place of Math.ceil
halfLengthFloor(ls) == Len(ls) \div 2

\* Math.ceil(sorted2.length / 2)
halfLength(ls) == (Len(ls) + 1) \div 2

topHalf(ls) == SubSeq(sortByRateDesc(ls), 1, halfLength(ls))

bottomHalf(ls) == SubSeq(sortByRateDesc(ls), halfLength(ls) + 1, Len(ls))

\* the top half as handed to calcTotalInterest / calcEMI
hybridTerms(ls) ==
    LET top == topHalf(ls)
    IN  [i \in 1..Len(top) |->
            [top[i] EXCEPT !.rate = btRate, !.tenure = RoundDiv(@ * 8, 10)]]

hybrid(ls) ==
    [ newInterest |-> SumInterest(hybridTerms(ls)) + SumInterest(bottomHalf(ls)),
      newEMI      |-> SumEMI(hybridTerms(ls)) + SumEMI(bottomHalf(ls)),
      newTenure   |-> MaxTenure(ls),
      details     |-> << "Balance-transfer top", Len(topHalf(ls)), btRate >> ]

\* a default that falls through to the case above it
baselineFallThrough(ls, currentTotalInterest, currentMonthlyEMI) == extendTenure(ls)

\* default:
baseline(ls, currentTotalInterest, currentMonthlyEMI) ==
    [ newInterest |-> currentTotalInterest,
      newEMI      |-> currentMonthlyEMI,
      newTenure   |-> MaxTenure(ls),
      details     |-> << >> ]

\* the switch on strategyId
restructured(ls, strategyId, currentTotalInterest, currentMonthlyEMI) ==
    CASE strategyId = "prepay_highest"   -> prepayHighest(ls, currentMonthlyEMI)
      [] strategyId = "consolidate"      -> consolidate(ls)
      [] strategyId = "balance_transfer" -> balanceTransfer(ls, currentMonthlyEMI)
      [] strategyId = "extend_tenure"    -> extendTenure(ls)
      [] strategyId = "hybrid"           -> hybrid(ls)
      [] OTHER -> baseline(ls, currentTotalInterest, currentMonthlyEMI)

\* a savings field without the floor
savingsUnfloored(savings) == savings

\* savings: Math.max(0, savings)
savingsField(savings) == Max(0, savings)

\* a guard against the zero divisor alone: currentTotalInterest !== 0 ? ... : 0
savingsPercentGuardedAtZeroOnly(savings, currentTotalInterest) ==
    IF currentTotalInterest # 0 THEN (savings * 100) \div currentTotalInterest ELSE 0

\* savingsPercent: currentTotalInterest > 0 ? (savings / currentTotalInterest) * 100 : 0
\* in whole percent (floored); the product is taken first to stay in range
savingsPercentField(savings, currentTotalInterest) ==
    IF currentTotalInterest > 0 THEN (savings * 100) \div currentTotalInterest ELSE 0

\* what a caller sees of a call that raised instead of returning
Thrown == [thrown |-> "RangeError"]

\* a simulator that validates its input first:
\* if (totalPrincipal <= 0) throw new RangeError(...)
simulateRestructureValidating(ls, strategyId) ==
    LET totalPrincipal == SumAmount(ls)
        currentTotalInterest == SumInterest(ls)
        currentMonthlyEMI == SumEMI(ls)
        new == restructured(ls, strategyId, currentTotalInterest, currentMonthlyEMI)
        savings == currentTotalInterest - new.newInterest
    IN  IF totalPrincipal <= 0
        THEN Thrown
        ELSE [ strategyId           |-> strategyId,
               currentTotalInterest |-> currentTotalInterest,
               currentMonthlyEMI    |-> currentMonthlyEMI,
               currentTotalPayout   |-> totalPrincipal * SCALE + currentTotalInterest,
               newInterest          |-> new.newInterest,
               newEMI               |-> new.newEMI,
               newTenure            |-> new.newTenure,
               savings              |-> savingsField(savings),
               emiReduction         |-> currentMonthlyEMI - new.newEMI,
               savingsPercent       |-> savingsPercentField(savings, currentTotalInterest),
               details              |-> new.details,
               totalPrincipal       |-> totalPrincipal ]

\* simulateRestructure(loans, strategyId) for a non-empty loans.  Every field
\* but strategyId, newTenure, savingsPercent, details and totalPrincipal is
\* fixed-point; totalPrincipal is in amount units.
simulateRestructure(ls, strategyId) ==
    LET totalPrincipal == SumAmount(ls)
        currentTotalInterest == SumInterest(ls)
        currentMonthlyEMI == SumEMI(ls)
        currentTotalPayout == totalPrincipal * SCALE + currentTotalInterest
        new == restructured(ls, strategyId, currentTotalInterest, currentMonthlyEMI)
        savings == currentTotalInterest - new.newInterest
        emiReduction == currentMonthlyEMI - new.newEMI
    IN  [ strategyId           |-> strategyId,
          currentTotalInterest |-> currentTotalInterest,
          currentMonthlyEMI    |-> currentMonthlyEMI,
          currentTotalPayout   |-> currentTotalPayout,
          newInterest          |-> new.newInterest,
          newEMI               |-> new.newEMI,
          newTenure            |-> new.newTenure,
          savings              |-> savingsField(savings),
          emiReduction         |-> emiReduction,
          savingsPercent       |-> savingsPercentField(savings, currentTotalInterest),
          details              |-> new.details,
          totalPrincipal       |-> totalPrincipal ]

\* a simulator that sorts loans itself (loans.sort(...)) in the two cases that sort
loansSortedInPlace(ls, strategyId) ==
    IF strategyId \in {"prepay_highest", "hybrid"} THEN sortByRateDesc(ls) ELSE ls

\* what the caller's array holds after simulateRestructure(loans, strategyId):
\* sort is applied to the copies [...loans]; reduce, filter, map and slice
\* leave their receiver alone
loansAfterSimulate(ls, strategyId) == ls

(***************************************************************************)
(* The calculator and the simulator as pure functions: inputs from bounded *)
(* sets, one action per invocation, the outcome kept in calc / call.       *)
(***************************************************************************)

NoCall == [invoked |-> FALSE, loans |-> << >>, strategyId |-> "", result |-> << >>]

NoReport == [generated |-> FALSE, best |-> "null", stratLabel |-> "", starred |-> << >>]

NoCalc == [invoked |-> FALSE, principal |-> 0, annualRate |-> 0, tenureMonths |-> 0,
           emi |-> 0, totalInterest |-> 0]

\* the longest portfolio handed to the simulator
MaxPortfolio == 3

EngineAmounts == {0, 100}

\* 10 %, exactly 11 %, 13.5 %
EngineRates == {1000, 1100, 1350}

EngineTenures == {4, 12}

EngineValues == [amount : EngineAmounts, rate : EngineRates, tenure : EngineTenures]

\* the i-th loan of a portfolio carries the i-th loan type
EnginePortfolio(v) ==
    [i \in 1..Len(v) |-> [type |-> LOAN_TYPES[i].id, amount |-> v[i].amount,
                          rate |-> v[i].rate, tenure |-> v[i].tenure]]

\* useState([...]): the loans the App starts with
InitialLoans ==
    << [type |-> "term",  amount |-> 150, rate |-> 1150, tenure |-> 60],
       [type |-> "ccod",  amount |-> 80,  rate |-> 1350, tenure |-> 12],
       [type |-> "mudra", amount |-> 50,  rate |-> 1000, tenure |-> 36] >>

\* portfolios beside the enumerated ones: the App's initial loans, a loan whose
\* tenure input holds 0, a pair of loans one of which has an odd tenure, a
\* negative amount, and a pair whose amounts cancel with a negative rate on
\* one side and a negative tenure on the other
EngineSpecialPortfolios ==
    { InitialLoans,
      << [type |-> "term", amount |-> 100, rate |-> 1350, tenure |-> 0] >>,
      << [type |-> "term", amount |-> 100, rate |-> 1350, tenure |-> 5],
         [type |-> "ccod", amount |-> 100, rate |-> 1000, tenure |-> 12] >>,
      << [type |-> "term", amount |-> -100, rate |-> 1150, tenure |-> 12] >>,
      << [type |-> "term", amount |-> 100,  rate |-> -600, tenure |-> 12],
         [type |-> "ccod", amount |-> -100, rate |-> 1350, tenure |-> -12] >> }

\* the five ids and one that is none of them
EngineStrategyIds == StrategyIds \cup {"refinance"}

InitEngine ==
    /\ \/ \E n \in 1..MaxPortfolio : \E v \in [1..n -> EngineValues] :
              loans = EnginePortfolio(v)
       \/ loans \in EngineSpecialPortfolios
    /\ step = "landing"
    /\ results = << >>
    /\ selectedStrategy = "null"
    /\ animateIn = FALSE
    /\ timerPending = FALSE
    /\ ops = 0
    /\ analysis = "none"
    /\ emptyInvocation = FALSE
    /\ report = NoReport
    /\ call = NoCall
    /\ calc = NoCalc

\* result = simulateRestructure(loans, strategyId), one invocation a behaviour
Simulate(strategyId) ==
    /\ ~ call.invoked
    /\ call' = [invoked |-> TRUE, loans |-> loans, strategyId |-> strategyId,
                result |-> simulateRestructure(loans, strategyId)]
    /\ loans' = loansAfterSimulate(loans, strategyId)
    /\ UNCHANGED <<uiVars, calc>>

NextEngine == \E strategyId \in EngineStrategyIds : Simulate(strategyId)

SpecEngine == InitEngine /\ [][NextEngine]_vars

CalcPrincipals == {-100, 0, 1, 12, 150}

\* -1300 %, -6 %, 0 %, 9.75 %, 11.5 %, 12 %: the rate input takes any number
CalcRates == {-130000, -600, 0, 975, 1150, 1200}

CalcTenures == {-12, 0, 1, 12, 60}

InitCalc ==
    /\ loans = << >>
    /\ step = "landing"
    /\ results = << >>
    /\ selectedStrategy = "null"
    /\ animateIn = FALSE
    /\ timerPending = FALSE
    /\ ops = 0
    /\ analysis = "none"
    /\ emptyInvocation = FALSE
    /\ report = NoReport
    /\ call = NoCall
    /\ calc = NoCalc

\* emi = calcEMI(principal, annualRate, tenureMonths) and
\* totalInterest = calcTotalInterest(principal, annualRate, tenureMonths)
Calculate(principal, annualRate, tenureMonths) ==
    /\ calc' = [invoked |-> TRUE, principal |-> principal, annualRate |-> annualRate,
                tenureMonths |-> tenureMonths,
                emi |-> calcEMI(principal, annualRate, tenureMonths),
                totalInterest |-> calcTotalInterest(principal, annualRate, tenureMonths)]
    /\ UNCHANGED <<loans, uiVars, call>>

NextCalc ==
    \E principal \in CalcPrincipals, annualRate \in CalcRates, tenureMonths \in CalcTenures :
        Calculate(principal, annualRate, tenureMonths)

SpecCalc == InitCalc /\ [][NextCalc]_vars

(***************************************************************************)
(* PDF Report Generator                                                    *)
(***************************************************************************)

\* a reduce that lets a later equal take over: r.savings >= best.savings ? r : best
RECURSIVE reduceBestLast(_, _)
reduceBestLast(best, rs) ==
    IF rs = << >> THEN best
    ELSE reduceBestLast(IF Head(rs).savings >= best.savings THEN Head(rs) ELSE best, Tail(rs))

\* results.reduce((best, r) => r.savings > best.savings ? r : best, results[0])
RECURSIVE reduceBest(_, _)
reduceBest(best, rs) ==
    IF rs = << >> THEN best
    ELSE reduceBest(IF Head(rs).savings > best.savings THEN Head(rs) ELSE best, Tail(rs))

bestResult(rs) == reduceBest(rs[1], rs)

\* RESTRUCTURE_STRATEGIES.find(s => s.id === id)?.label || ""
StrategyLabel(id) ==
    IF \E i \in 1..Len(RESTRUCTURE_STRATEGIES) : RESTRUCTURE_STRATEGIES[i].id = id
    THEN RESTRUCTURE_STRATEGIES[CHOOSE i \in 1..Len(RESTRUCTURE_STRATEGIES) :
                                    RESTRUCTURE_STRATEGIES[i].id = id].label
    ELSE ""

\* generateReportHTML(loans, results, businessName): the strategy the savings
\* box and the action plan name, and the rows of the comparison table that
\* carry the star (isBest), in table order
generateReportHTML(ls, rs) ==
    LET best == bestResult(rs)
    IN  [ generated  |-> TRUE,
          best       |-> best.strategyId,
          stratLabel |-> StrategyLabel(best.strategyId),
          starred    |-> [i \in 1..Len(rs) |-> rs[i].strategyId = best.strategyId] ]

(***************************************************************************)
(* Main App                                                                *)
(***************************************************************************)

\* the order of a sort that is not stable: of two entries with equal savings
\* the later one comes first
savingsBeforeUnstable(rs, i, j) ==
    \/ rs[i].savings > rs[j].savings
    \/ rs[i].savings = rs[j].savings /\ i > j

\* whether rs[i] ends up in front of rs[j] under the comparator
\* (a, b) => b.savings - a.savings: when the comparator is negative for
\* (rs[i], rs[j]), or 0 and rs[i] was in front already (the sort is stable)
savingsBefore(rs, i, j) ==
    \/ rs[i].savings > rs[j].savings
    \/ rs[i].savings = rs[j].savings /\ i < j

\* Array.prototype.sort((a, b) => b.savings - a.savings): the entry with k - 1
\* entries in front of it is the k-th
sortBySavingsDesc(rs) ==
    IF rs = << >> THEN << >>
    ELSE [k \in 1..Len(rs) |->
             rs[CHOOSE i \in 1..Len(rs) :
                    Cardinality({j \in 1..Len(rs) : savingsBefore(rs, j, i)}) = k - 1]]

\* The render that follows every state change: in the results step it sorts
\* the results array in place (results.sort(...).map(...)), so the array the
\* next handler reads is the sorted one.
rendered(newStep, rs) == IF newStep = "results" THEN sortBySavingsDesc(rs) ELSE rs

\* loans added and fields edited in one run of the model (removals are free:
\* they only shorten the portfolio)
MaxOps == 1

\* what the user leaves in the Principal, Rate and Tenure inputs (e.target.value,
\* a string): here the Principal input emptied
UpdateValues == [amount |-> {""}, rate |-> {}, tenure |-> {}]

Init ==
    /\ step = "landing"
    /\ loans = InitialLoans
    /\ results = << >>
    /\ selectedStrategy = "null"
    /\ animateIn = FALSE
    /\ timerPending = FALSE
    /\ ops = 0
    /\ analysis = "none"
    /\ emptyInvocation = FALSE
    /\ report = NoReport
    /\ call = NoCall
    /\ calc = NoCalc

\* what every handler but runAnalysis and downloadReport leaves in the
\* records of the last handler
NoOutput ==
    /\ analysis' = "none"
    /\ report' = NoReport
    /\ UNCHANGED <<emptyInvocation, call, calc>>

\* <LandingPage onStart={() => setStep("input")} />
Start ==
    /\ step = "landing"
    /\ step' = "input"
    /\ results' = rendered("input", results)
    /\ UNCHANGED <<loans, selectedStrategy, animateIn, timerPending, ops>>
    /\ NoOutput

\* the header logo: onClick={() => setStep("landing")}
HeaderClick ==
    /\ step \in {"input", "results"}
    /\ step' = "landing"
    /\ results' = rendered("landing", results)
    /\ UNCHANGED <<loans, selectedStrategy, animateIn, timerPending, ops>>
    /\ NoOutput

\* "Edit Loans": onClick={() => { setStep("input"); setResults([]); }}
EditLoans ==
    /\ step = "results"
    /\ step' = "input"
    /\ results' = rendered("input", << >>)
    /\ UNCHANGED <<loans, selectedStrategy, animateIn, timerPending, ops>>
    /\ NoOutput

\* "New Analysis": onClick={() => { setStep("input"); setResults([]); }}
NewAnalysis ==
    /\ step = "results"
    /\ step' = "input"
    /\ results' = rendered("input", << >>)
    /\ UNCHANGED <<loans, selectedStrategy, animateIn, timerPending, ops>>
    /\ NoOutput

\* a handler that puts the new loan first: setLoans([{ ... }, ...loans])
addLoanInFront(ls, typeId) ==
    IF \E i \in 1..Len(LOAN_TYPES) : LOAN_TYPES[i].id = typeId
    THEN LET lt == LOAN_TYPES[CHOOSE i \in 1..Len(LOAN_TYPES) : LOAN_TYPES[i].id = typeId]
         IN  << [type |-> lt.id, amount |-> lt.defaultAmount,
                 rate |-> lt.defaultRate, tenure |-> lt.defaultTenure] >> \o ls
    ELSE ls

\* the value of loans after addLoan(typeId)
addLoan(ls, typeId) ==
    IF \E i \in 1..Len(LOAN_TYPES) : LOAN_TYPES[i].id = typeId
    THEN LET lt == LOAN_TYPES[CHOOSE i \in 1..Len(LOAN_TYPES) : LOAN_TYPES[i].id = typeId]
         IN  Append(ls, [type |-> lt.id, amount |-> lt.defaultAmount,
                         rate |-> lt.defaultRate, tenure |-> lt.defaultTenure])
    ELSE ls

\* "+ label" buttons for every loan type, whether or not the portfolio has it:
\* LOAN_TYPES.map(lt => <button onClick={() => addLoan(lt.id)}>)
AddLoanUnfiltered(typeId) ==
    /\ step = "input"
    /\ ops < MaxOps
    /\ loans' = addLoan(loans, typeId)
    /\ ops' = ops + 1
    /\ results' = rendered(step, results)
    /\ UNCHANGED <<step, selectedStrategy, animateIn, timerPending>>
    /\ NoOutput

\* the "+ label" buttons: LOAN_TYPES.filter(lt => !loans.find(l => l.type === lt.id))
AddLoan(typeId) ==
    /\ step = "input"
    /\ ops < MaxOps
    /\ ~ \E i \in 1..Len(loans) : loans[i].type = typeId
    /\ loans' = addLoan(loans, typeId)
    /\ ops' = ops + 1
    /\ results' = rendered(step, results)
    /\ UNCHANGED <<step, selectedStrategy, animateIn, timerPending>>
    /\ NoOutput

\* a removal by splice without a count, which drops the loan at idx and every
\* loan after it: const next = [...loans]; next.splice(idx); setLoans(next)
removeLoanSplice(ls, idx) == SubSeq(ls, 1, idx - 1)

\* loans.filter((_, i) => i !== idx), idx counted from 1
removeLoan(ls, idx) == SubSeq(ls, 1, idx - 1) \o SubSeq(ls, idx + 1, Len(ls))

RemoveLoan(idx) ==
    /\ step = "input"
    /\ loans' = removeLoan(loans, idx)
    /\ results' = rendered(step, results)
    /\ UNCHANGED <<step, selectedStrategy, animateIn, timerPending, ops>>
    /\ NoOutput

\* Number(val) of the strings the model types: the empty string is 0, a
\* decimal numeral is its value, with leading zeros and an exponent read as
\* JavaScript reads them
Number(val) ==
    CASE val = ""       -> 0
      [] val = "0"      -> 0
      [] val = "12"     -> 12
      [] val = "024"    -> 24
      [] val = "-6"     -> -6
      [] val = "25e4"   -> 250000
      [] val = "-50000" -> -50000

\* a number of the program in the unit the model keeps the field in
fieldValue(field, x) ==
    CASE field = "amount" -> x \div AMOUNT_UNIT
      [] field = "rate"   -> x * RATE_UNIT
      [] OTHER            -> x

\* next[idx] = { ...next[idx], [field]: Number(val) }, idx counted from 1
updateLoan(ls, idx, field, val) ==
    [ls EXCEPT ![idx] = [@ EXCEPT ![field] = fieldValue(field, Number(val))]]

UpdateLoan(idx, field, val) ==
    /\ step = "input"
    /\ ops < MaxOps
    /\ loans' = updateLoan(loans, idx, field, val)
    /\ ops' = ops + 1
    /\ results' = rendered(step, results)
    /\ UNCHANGED <<step, selectedStrategy, animateIn, timerPending>>
    /\ NoOutput

\* RESTRUCTURE_STRATEGIES.map(s => simulateRestructure(loans, s.id))
analyse(ls) ==
    [i \in 1..Len(RESTRUCTURE_STRATEGIES) |->
        simulateRestructure(ls, RESTRUCTURE_STRATEGIES[i].id)]

\* a handler without the line "if (loans.length === 0) return;": on an empty
\* portfolio the engine is entered and throws at sorted[0].tenure, before any
\* setState
runAnalysisWithoutReturn ==
    /\ step = "input"
    /\ IF Len(loans) = 0
       THEN /\ analysis' = "threw"
            /\ emptyInvocation' = TRUE
            /\ UNCHANGED <<step, loans, results, selectedStrategy, animateIn, timerPending>>
       ELSE LET res == analyse(loans)
                best == bestResult(res)
            IN  /\ analysis' = "analysed"
                /\ emptyInvocation' = (emptyInvocation \/ loans = << >>)
                /\ loans' = loansAfterSimulate(loans, res[Len(res)].strategyId)
                /\ selectedStrategy' = best.strategyId
                /\ step' = "results"
                /\ results' = rendered("results", res)
                /\ animateIn' = FALSE
                /\ timerPending' = TRUE
    /\ report' = NoReport
    /\ UNCHANGED <<ops, call, calc>>

\* a handler that keeps what results already holds (the header logo and "Get
\* Started" lead back to the input step without emptying results):
\* if (results.length) { setStep("results"); return; }
runAnalysisCached ==
    /\ step = "input"
    /\ IF Len(loans) = 0
       THEN /\ analysis' = "returned"
            /\ UNCHANGED <<step, loans, results, selectedStrategy, animateIn,
                           timerPending, emptyInvocation>>
       ELSE IF results # << >>
       THEN /\ analysis' = "analysed"
            /\ step' = "results"
            /\ results' = rendered("results", results)
            /\ UNCHANGED <<loans, selectedStrategy, animateIn, timerPending,
                           emptyInvocation>>
       ELSE LET res == analyse(loans)
                best == bestResult(res)
            IN  /\ analysis' = "analysed"
                /\ emptyInvocation' = (emptyInvocation \/ loans = << >>)
                /\ loans' = loansAfterSimulate(loans, res[Len(res)].strategyId)
                /\ selectedStrategy' = best.strategyId
                /\ step' = "results"
                /\ results' = rendered("results", res)
                /\ animateIn' = FALSE
                /\ timerPending' = TRUE
    /\ report' = NoReport
    /\ UNCHANGED <<ops, call, calc>>

\* a handler without the line "setTimeout(() => setAnimateIn(true), 50);"
runAnalysisWithoutTimer ==
    /\ step = "input"
    /\ IF Len(loans) = 0
       THEN /\ analysis' = "returned"
            /\ UNCHANGED <<step, loans, results, selectedStrategy, animateIn,
                           timerPending, emptyInvocation>>
       ELSE LET res == analyse(loans)
                best == bestResult(res)
            IN  /\ analysis' = "analysed"
                /\ emptyInvocation' = (emptyInvocation \/ loans = << >>)
                /\ loans' = loansAfterSimulate(loans, res[Len(res)].strategyId)
                /\ selectedStrategy' = best.strategyId
                /\ step' = "results"
                /\ results' = rendered("results", res)
                /\ animateIn' = FALSE
                /\ UNCHANGED timerPending
    /\ report' = NoReport
    /\ UNCHANGED <<ops, call, calc>>

\* onClick={runAnalysis} of the "Analyze" button, shown in the input step.
\* The handler is taken as it stands, callable on any portfolio: the button's
\* disabled attribute keeps a click away from it while loans is empty, the
\* handler's own first line is what keeps the engine away from an empty list.
runAnalysis ==
    /\ step = "input"
    /\ IF Len(loans) = 0
       THEN /\ analysis' = "returned"
            /\ UNCHANGED <<step, loans, results, selectedStrategy, animateIn,
                           timerPending, emptyInvocation>>
       ELSE LET res == analyse(loans)
                best == bestResult(res)
            IN  /\ analysis' = "analysed"
                /\ emptyInvocation' = (emptyInvocation \/ loans = << >>)
                /\ loans' = loansAfterSimulate(loans, res[Len(res)].strategyId)
                /\ selectedStrategy' = best.strategyId
                /\ step' = "results"
                /\ results' = rendered("results", res)
                /\ animateIn' = FALSE
                /\ timerPending' = TRUE
    /\ report' = NoReport
    /\ UNCHANGED <<ops, call, calc>>

\* the setTimeout callback: () => setAnimateIn(true).  Every runAnalysis
\* schedules one, so several may be pending: after one has run, another may
\* or may not remain.
TimerFires ==
    /\ timerPending
    /\ timerPending' \in BOOLEAN
    /\ animateIn' = TRUE
    /\ results' = rendered(step, results)
    /\ UNCHANGED <<step, loans, selectedStrategy, ops>>
    /\ NoOutput

\* a strategy card: onClick={() => setSelectedStrategy(r.strategyId)}
SelectStrategy(i) ==
    /\ step = "results"
    /\ selectedStrategy' = results[i].strategyId
    /\ results' = rendered(step, results)
    /\ UNCHANGED <<step, loans, animateIn, timerPending, ops>>
    /\ NoOutput

\* "Download Report": generateReportHTML(loans, results, businessName)
downloadReport ==
    /\ step = "results"
    /\ report' = generateReportHTML(loans, results)
    /\ results' = rendered(step, results)
    /\ analysis' = "none"
    /\ UNCHANGED <<step, loans, selectedStrategy, animateIn, timerPending, ops, emptyInvocation, call, calc>>

Next ==
    \/ Start
    \/ HeaderClick
    \/ EditLoans
    \/ NewAnalysis
    \/ \E i \in 1..Len(LOAN_TYPES) : AddLoan(LOAN_TYPES[i].id)
    \/ \E idx \in 1..Len(loans) : RemoveLoan(idx)
    \/ \E idx \in 1..Len(loans), field \in {"amount", "rate", "tenure"} :
          \E val \in UpdateValues[field] : UpdateLoan(idx, field, val)
    \/ runAnalysis
    \/ TimerFires
    \/ \E i \in 1..Len(results) : SelectStrategy(i)
    \/ downloadReport

Spec == Init /\ [][Next]_vars

\* The App with its timers: a callback handed to setTimeout is run by the
\* event loop once its 50 ms are over, whatever the user does meanwhile.
\* Nothing obliges the user to click.
SpecTimers == Spec /\ WF_vars(TimerFires)

(***************************************************************************)
(* The handlers addLoan, removeLoan and updateLoan as functions of the     *)
(* state they are called in: the portfolio and the rest of the App's state *)
(* from bounded sets, one call per behaviour, its arguments kept in call.  *)
(***************************************************************************)

\* one loan of every type with the type's defaults, in the order of LOAN_TYPES
DefaultPortfolio == [i \in 1..Len(LOAN_TYPES) |-> addLoan(<< >>, LOAN_TYPES[i].id)[1]]

HandlerPortfolios ==
    {SubSeq(DefaultPortfolio, 1, n) : n \in 0..MaxPortfolio} \cup EngineSpecialPortfolios

\* the ids of LOAN_TYPES, that of a type the portfolio may hold already
\* among them, and an id that is none of them
HandlerTypeIds == {LOAN_TYPES[i].id : i \in 1..Len(LOAN_TYPES)} \cup {"gold"}

HandlerValues ==
    [amount |-> {"", "25e4", "-50000"}, rate |-> {"0", "12", "-6"}, tenure |-> {"", "024", "-6"}]

\* the input step, either fresh or come back to by the header logo and "Get
\* Started" with the results of the initial loans still in results
InitHandlers ==
    /\ loans \in HandlerPortfolios
    /\ step = "input"
    /\ \E stale \in BOOLEAN :
          /\ results = IF stale THEN sortBySavingsDesc(analyse(InitialLoans)) ELSE << >>
          /\ selectedStrategy = IF stale THEN "consolidate" ELSE "null"
          /\ animateIn = stale
    /\ timerPending = FALSE
    /\ ops = 0
    /\ analysis = "none"
    /\ emptyInvocation = FALSE
    /\ report = NoReport
    /\ call = NoCall
    /\ calc = NoCalc

HandlerCall(handler, typeId, idx, field, val) ==
    [invoked |-> TRUE, handler |-> handler, loans |-> loans, typeId |-> typeId,
     idx |-> idx, field |-> field, val |-> val]

\* addLoan(typeId): setLoans is the only setter it calls
CallAddLoan(typeId) ==
    /\ ~ call.invoked
    /\ call' = HandlerCall("addLoan", typeId, 0, "", "")
    /\ loans' = addLoan(loans, typeId)
    /\ UNCHANGED <<uiVars, calc>>

\* removeLoan(idx)
CallRemoveLoan(idx) ==
    /\ ~ call.invoked
    /\ call' = HandlerCall("removeLoan", "", idx, "", "")
    /\ loans' = removeLoan(loans, idx)
    /\ UNCHANGED <<uiVars, calc>>

\* updateLoan(idx, field, val)
CallUpdateLoan(idx, field, val) ==
    /\ ~ call.invoked
    /\ call' = HandlerCall("updateLoan", "", idx, field, val)
    /\ loans' = updateLoan(loans, idx, field, val)
    /\ UNCHANGED <<uiVars, calc>>

NextHandlers ==
    \/ \E typeId \in HandlerTypeIds : CallAddLoan(typeId)
    \/ \E idx \in 1..Len(loans) : CallRemoveLoan(idx)
    \/ \E idx \in 1..Len(loans), field \in {"amount", "rate", "tenure"} :
          \E val \in HandlerValues[field] : CallUpdateLoan(idx, field, val)

SpecHandlers == InitHandlers /\ [][NextHandlers]_vars

(***************************************************************************)
(* Properties of simulateRestructure (SpecEngine) and calcEMI (SpecCalc)   *)
(***************************************************************************)

\* C1: for every non-empty portfolio and every strategy id, known or not, the
\* savings field of the result is >= 0 and equals
\* max(0, currentTotalInterest - newInterest).
SavingsNeverNegative ==
    call.invoked =>
        /\ call.result.savings >= 0
        /\ call.result.savings =
               Max(0, call.result.currentTotalInterest - call.result.newInterest)

\* a strategy that raises the total interest has been simulated
SavingsFlooredAtZero ==
    /\ call.invoked
    /\ call.result.newInterest > call.result.currentTotalInterest
    /\ call.result.savings = 0

\* C2: whenever currentTotalInterest > 0 the savingsPercent field is the
\* savings field of the same result over currentTotalInterest, times 100; it is
\* never negative and is 0 whenever the savings field is 0.
SavingsPercentOfSavingsField ==
    call.invoked /\ call.result.currentTotalInterest > 0 =>
        /\ call.result.savingsPercent =
               (call.result.savings * 100) \div call.result.currentTotalInterest
        /\ call.result.savingsPercent >= 0
        /\ call.result.savings = 0 => call.result.savingsPercent = 0

\* C3: a strategy id that is none of the five yields the baseline: newInterest
\* = currentTotalInterest, newEMI = currentMonthlyEMI, newTenure = maxTenure,
\* savings = 0, emiReduction = 0 and the empty details.
UnrecognizedIdYieldsBaseline ==
    call.invoked /\ call.strategyId \notin StrategyIds =>
        /\ call.result.newInterest = call.result.currentTotalInterest
        /\ call.result.newEMI = call.result.currentMonthlyEMI
        /\ call.result.newTenure = MaxTenure(call.loans)
        /\ call.result.savings = 0
        /\ call.result.emiReduction = 0
        /\ call.result.details = << >>

\* an unrecognized id has been simulated on a portfolio that costs interest
UnrecognizedIdSimulated ==
    /\ call.invoked
    /\ call.strategyId = "refinance"
    /\ call.result.currentTotalInterest > 0
    /\ call.result.currentMonthlyEMI > 0

\* exactly one loan of ls carries the maximum rate
UniqueMaxRate(ls) ==
    \E i \in 1..Len(ls) : \A j \in 1..Len(ls) : j # i => ls[j].rate < ls[i].rate

\* C4: for prepay_highest on a portfolio of loans with positive tenures and
\* exactly one loan at the maximum rate, the tenure that loan enters the
\* recomputation with is strictly less than its own tenure, and every other
\* loan enters with its own tenure.
PrepayShortensHighestOnly ==
    /\ call.invoked
    /\ call.strategyId = "prepay_highest"
    /\ UniqueMaxRate(call.loans)
    /\ \A i \in 1..Len(call.loans) : call.loans[i].tenure > 0
    =>
        (LET sorted == sortByRateDesc(call.loans)
             terms == prepayTerms(call.loans)
         IN  /\ terms[1].tenure < sorted[1].tenure
             /\ \A i \in 2..Len(sorted) : terms[i].tenure = sorted[i].tenure)

\* the rate and tenure a loan keeps or gets under balance_transfer
TransferredTerms(ls) ==
    [i \in 1..Len(ls) |-> [ls[i] EXCEPT !.rate = IF @ <= 1100 THEN @ ELSE 975]]

\* C5: under balance_transfer every loan with rate <= 11 (11 itself included)
\* contributes to newInterest and newEMI with its own rate and tenure, every
\* loan with rate > 11 with 9.75 and its own tenure, each loan is in exactly
\* one of the two groups, and newTenure = maxTenure.
BalanceTransferPartition ==
    call.invoked /\ call.strategyId = "balance_transfer" =>
        /\ call.result.newInterest = SumInterest(TransferredTerms(call.loans))
        /\ call.result.newEMI = SumEMI(TransferredTerms(call.loans))
        /\ Len(highRateLoans(call.loans)) + Len(lowRateLoans(call.loans)) = Len(call.loans)
        /\ \A i \in 1..Len(call.loans) :
              LET inHigh == \E k \in 1..Len(highRateLoans(call.loans)) :
                                highRateLoans(call.loans)[k] = call.loans[i]
                  inLow  == \E k \in 1..Len(lowRateLoans(call.loans)) :
                                lowRateLoans(call.loans)[k] = call.loans[i]
              IN  /\ inHigh = (call.loans[i].rate > 1100)
                  /\ inLow = (call.loans[i].rate <= 1100)
        /\ call.result.newTenure = MaxTenure(call.loans)

\* balance_transfer has been simulated on a portfolio with money lent at exactly
\* 11 % and money lent above it
TransferWithLoanAtThreshold ==
    /\ call.invoked
    /\ call.strategyId = "balance_transfer"
    /\ \E i \in 1..Len(call.loans) : call.loans[i].rate = 1100 /\ call.loans[i].amount > 0
    /\ \E i \in 1..Len(call.loans) : call.loans[i].rate > 1100 /\ call.loans[i].amount > 0

\* C9: simulateRestructure leaves the portfolio it was handed as it was: same
\* length, same order, every loan with the same amount, rate, tenure and type.
PortfolioUnchanged ==
    call.invoked =>
        /\ Len(loans) = Len(call.loans)
        /\ \A i \in 1..Len(loans) :
              /\ loans[i].amount = call.loans[i].amount
              /\ loans[i].rate = call.loans[i].rate
              /\ loans[i].tenure = call.loans[i].tenure
              /\ loans[i].type = call.loans[i].type

\* a rate-sorting strategy has been simulated on a portfolio that is not in
\* descending order of rate
SortingStrategyOnUnsorted ==
    /\ call.invoked
    /\ call.strategyId \in {"prepay_highest", "hybrid"}
    /\ sortByRateDesc(call.loans) # call.loans

\* C10: calcEMI returns exactly 0 whenever principal <= 0 or tenureMonths <= 0,
\* whatever the annualRate.
ZeroOnNonPositiveInput ==
    calc.invoked /\ (calc.principal <= 0 \/ calc.tenureMonths <= 0) => calc.emi = 0

\* calcEMI has been called with a negative principal, a positive tenure and a
\* rate that is not zero
NegativePrincipalCalculated ==
    /\ calc.invoked
    /\ calc.principal < 0
    /\ calc.tenureMonths > 0
    /\ calc.annualRate # 0
    /\ calc.emi = 0

(***************************************************************************)
(* Properties of the App (Spec)                                            *)
(***************************************************************************)

\* the place of a strategy in RESTRUCTURE_STRATEGIES
DeclarationIndex(id) ==
    CHOOSE i \in 1..Len(RESTRUCTURE_STRATEGIES) : RESTRUCTURE_STRATEGIES[i].id = id

\* id names a result of rs with the maximum savings, and of the results with
\* that savings the one declared first
FirstMaximum(id, rs) ==
    \E i \in 1..Len(rs) :
        /\ rs[i].strategyId = id
        /\ \A j \in 1..Len(rs) :
              /\ rs[j].savings <= rs[i].savings
              /\ rs[j].savings = rs[i].savings =>
                     DeclarationIndex(id) <= DeclarationIndex(rs[j].strategyId)

\* C6: whenever a report is generated, the strategy it selects as best has the
\* maximum savings among the five results and, among the results that tie for
\* the maximum, is the one first in declaration order, although the results
\* array it reads has been sorted in place by the render; the strategy
\* runAnalysis selects follows the same rule.
BestIsFirstMaximum ==
    /\ report.generated =>
           /\ Len(results) = Len(RESTRUCTURE_STRATEGIES)
           /\ FirstMaximum(report.best, results)
    /\ analysis = "analysed" =>
           /\ Len(results) = Len(RESTRUCTURE_STRATEGIES)
           /\ FirstMaximum(selectedStrategy, results)

\* a report has been generated from results in which several strategies tie
\* for the maximum savings, after the user had selected another strategy
ReportWithTiedMaximum ==
    /\ report.generated
    /\ selectedStrategy # report.best
    /\ \E i, j \in 1..Len(results) :
          /\ i # j
          /\ results[i].savings = results[j].savings
          /\ \A k \in 1..Len(results) : results[k].savings <= results[i].savings

\* C7: simulateRestructure is never entered with an empty loan list, and a
\* runAnalysis that finds loans empty returns leaving step, results and
\* selectedStrategy as they were.
EngineNeverGivenEmptyPortfolio ==
    /\ [](~ emptyInvocation)
    /\ [][(step = "input" /\ loans = << >> /\ analysis' # "none") =>
              /\ analysis' = "returned"
              /\ step' = step
              /\ results' = results
              /\ selectedStrategy' = selectedStrategy]_vars

\* runAnalysis has run on an empty portfolio, with results of an earlier
\* analysis still held
AnalysisReturnedOnEmpty ==
    /\ analysis = "returned"
    /\ loans = << >>
    /\ step = "input"
    /\ results # << >>

(***************************************************************************)
(* Properties of calcEMI and calcTotalInterest (SpecCalc), continued       *)
(***************************************************************************)

InterestIsPaymentsMinusPrincipal ==
    calc.invoked =>
        /\ calc.totalInterest = calc.emi * calc.tenureMonths - calc.principal * SCALE
        /\ calc.principal > 0 /\ calc.tenureMonths <= 0 =>
               calc.totalInterest = - calc.principal * SCALE

\* the interest of a loan with a principal and no tenure has been calculated,
\* at a rate that is not zero
InterestOfLoanWithoutTenure ==
    /\ calc.invoked
    /\ calc.principal > 0
    /\ calc.tenureMonths <= 0
    /\ calc.annualRate > 0
    /\ calc.totalInterest < 0

\* C20: for every numeric input, negative annual rates included, calcEMI
\* returns a non-negative number.
PaymentNeverNegative ==
    calc.invoked => calc.emi >= 0

(***************************************************************************)
(* Properties of simulateRestructure (SpecEngine), continued               *)
(***************************************************************************)

\* C13: if currentTotalInterest is 0 or negative, the savingsPercent of the
\* result is exactly 0 (nothing is divided by currentTotalInterest).
SavingsPercentGuarded ==
    call.invoked /\ call.result.currentTotalInterest <= 0 =>
        call.result.savingsPercent = 0

\* a strategy that changes the interest has been simulated on a portfolio
\* whose current interest is negative
NegativeInterestSimulated ==
    /\ call.invoked
    /\ call.result.currentTotalInterest < 0
    /\ call.result.newInterest # call.result.currentTotalInterest
    /\ call.result.savingsPercent = 0

\* C14: consolidate on a portfolio with positive total principal: the new rate
\* is max(9.5, W - 2.5) with W = sum(rate * amount) / sum(amount), never below
\* 9.5; newTenure = round(maxTenure * 1.1); newInterest and newEMI are
\* calcTotalInterest and calcEMI applied once to (total principal, new rate,
\* newTenure).
ConsolidateAtFlooredRate ==
    call.invoked /\ call.strategyId = "consolidate" /\ call.result.totalPrincipal > 0 =>
        LET total == call.result.totalPrincipal
            W == SumRateAmount(call.loans) \div total
            newRate == IF W - 250 > 950 THEN W - 250 ELSE 950
            newTenure == (MaxTenure(call.loans) * 11 + 5) \div 10
        IN  /\ total = SumAmount(call.loans)
            /\ newRate >= 950
            /\ call.result.newTenure = newTenure
            /\ call.result.newInterest = calcTotalInterest(total, newRate, newTenure)
            /\ call.result.newEMI = calcEMI(total, newRate, newTenure)
            /\ call.result.details[3] = toFixed1(newRate)

\* consolidate has been simulated on a portfolio whose weighted average rate
\* less 2.5 is below 9.5
ConsolidateBelowFloor ==
    /\ call.invoked
    /\ call.strategyId = "consolidate"
    /\ call.result.totalPrincipal > 0
    /\ SumRateAmount(call.loans) \div call.result.totalPrincipal - 250 < 950

\* the first loan of ls, in the order of ls, among those with the maximum rate
HighestRateIndex(ls) ==
    CHOOSE i \in 1..Len(ls) :
        /\ \A j \in 1..Len(ls) : ls[j].rate <= ls[i].rate
        /\ \A j \in 1..(i - 1) : ls[j].rate < ls[i].rate

\* C15: prepay_highest: newTenure = max(6, round(0.65 * tenure of the
\* highest-rate loan)), newEMI = 1.15 * currentMonthlyEMI, emiReduction =
\* -0.15 * currentMonthlyEMI, and newInterest is the sum over all loans of
\* calcTotalInterest with only the highest-rate loan's tenure replaced by
\* newTenure.
PrepayHighestRecomputation ==
    call.invoked /\ call.strategyId = "prepay_highest" =>
        LET h == HighestRateIndex(call.loans)
            shrunk == (call.loans[h].tenure * 65 + 50) \div 100
            newTenure == IF shrunk > 6 THEN shrunk ELSE 6
            cur == call.result.currentMonthlyEMI
        IN  /\ call.result.newTenure = newTenure
            /\ call.result.newEMI = (cur * 115) \div 100
            /\ call.result.emiReduction = - ((cur * 15) \div 100)
            /\ call.result.newInterest =
                   SumInterest([call.loans EXCEPT ![h].tenure = newTenure])

\* prepay_highest has been simulated on a portfolio of several loans whose
\* highest-rate loan has less than six months to run and is not the first
PrepayOfShortLoan ==
    /\ call.invoked
    /\ call.strategyId = "prepay_highest"
    /\ Len(call.loans) > 1
    /\ HighestRateIndex(call.loans) > 1
    /\ call.loans[HighestRateIndex(call.loans)].tenure < 6
    /\ call.loans[HighestRateIndex(call.loans)].amount > 0

\* C16: hybrid on n loans: exactly the ceil(n/2) loans that come first by
\* descending rate are recomputed at 9.75 % with tenure round(0.8 * tenure),
\* the remaining floor(n/2) loans with their own rate and tenure; newInterest
\* and newEMI are the sums over both groups; newTenure = maxTenure.
HybridSplitsAtUpperHalf ==
    call.invoked /\ call.strategyId = "hybrid" =>
        LET n == Len(call.loans)
            k == n - (n \div 2)
            sorted == sortByRateDesc(call.loans)
            terms == [i \in 1..n |->
                         IF i <= k
                         THEN [sorted[i] EXCEPT !.rate = 975,
                                                !.tenure = (@ * 8 + 5) \div 10]
                         ELSE sorted[i]]
        IN  /\ Len(sorted) = n
            /\ \A i \in 1..n : \E j \in 1..n : sorted[j] = call.loans[i]
            /\ \A i \in 1..(n - 1) : sorted[i].rate >= sorted[i + 1].rate
            /\ call.result.newInterest = SumInterest(terms)
            /\ call.result.newEMI = SumEMI(terms)
            /\ call.result.newTenure = MaxTenure(call.loans)
            /\ call.result.details[2] = k

\* hybrid has been simulated on an odd number of loans, more than one, given in
\* ascending order of rate
HybridOfOddPortfolio ==
    /\ call.invoked
    /\ call.strategyId = "hybrid"
    /\ Len(call.loans) = 3
    /\ \A i \in 1..3 : call.loans[i].amount > 0
    /\ call.loans[1].rate < call.loans[2].rate
    /\ call.loans[2].rate < call.loans[3].rate

\* C17: extend_tenure: newInterest and newEMI are the sums over all loans of
\* calcTotalInterest and calcEMI at the loan's own amount and rate with tenure
\* round(1.5 * tenure); newTenure = round(1.5 * maxTenure).
ExtendTenureRecomputation ==
    call.invoked /\ call.strategyId = "extend_tenure" =>
        LET extended(t) == (3 * t + 1) \div 2
            terms == [i \in 1..Len(call.loans) |->
                         [call.loans[i] EXCEPT !.tenure = extended(@)]]
        IN  /\ call.result.newInterest = SumInterest(terms)
            /\ call.result.newEMI = SumEMI(terms)
            /\ call.result.newTenure = extended(MaxTenure(call.loans))

\* extend_tenure has been simulated on a portfolio with a loan of an odd tenure
\* (1.5 times it is rounded up)
ExtendOfOddTenure ==
    /\ call.invoked
    /\ call.strategyId = "extend_tenure"
    /\ \E i \in 1..Len(call.loans) :
          call.loans[i].tenure % 2 = 1 /\ call.loans[i].amount > 0

\* C18, as stated: for the App's initial loans consolidate computes a weighted
\* average rate of about 11.46 %, so about 8.96 % after the 2.5 points, which
\* is below 9.5 %, and the new rate is 9.5 %.
InitialLoansAverageAsStated ==
    call.invoked /\ call.strategyId = "consolidate" /\ call.loans = InitialLoans =>
        LET W == SumRateAmount(call.loans) \div call.result.totalPrincipal
        IN  /\ W \in 1145..1147
            /\ W - 250 \in 895..897
            /\ call.result.details[3] = 95

\* C18, as computed: for the App's initial loans the weighted average rate is
\* about 11.80 % (33050000 / 2800000), so about 9.30 % after the 2.5 points,
\* which is below 9.5 %, and the new rate is 9.5 %.
InitialLoansAverage ==
    call.invoked /\ call.strategyId = "consolidate" /\ call.loans = InitialLoans =>
        LET W == SumRateAmount(call.loans) \div call.result.totalPrincipal
        IN  /\ W \in 1180..1181
            /\ W - 250 \in 930..931
            /\ W - 250 < 950
            /\ call.result.details = << "Consolidate", 3, 95, 118 >>
            /\ call.result.newInterest = calcTotalInterest(280, 950, 66)

\* consolidate has been simulated on the App's initial loans
InitialLoansConsolidated ==
    /\ call.invoked
    /\ call.strategyId = "consolidate"
    /\ call.loans = InitialLoans
    /\ call.result.totalPrincipal = 280

\* ls with the loans at i and i + 1 exchanged
exchanged(ls, i) == [ls EXCEPT ![i] = ls[i + 1], ![i + 1] = ls[i]]

\* no two loans of ls share a rate
DistinctRates(ls) ==
    \A i, j \in 1..Len(ls) : i # j => ls[i].rate # ls[j].rate

ResultFields ==
    { "strategyId", "currentTotalInterest", "currentMonthlyEMI", "currentTotalPayout",
      "newInterest", "newEMI", "newTenure", "savings", "emiReduction",
      "savingsPercent", "details", "totalPrincipal" }

ResultsAreOfCurrentLoans ==
    step = "results" =>
        /\ Len(results) = 5
        /\ \A id \in StrategyIds :
              /\ Cardinality({i \in 1..Len(results) : results[i].strategyId = id}) = 1
              /\ \E i \in 1..Len(results) : results[i] = simulateRestructure(loans, id)

\* results of an edited portfolio on display, the timer callback having run
EditedPortfolioAnalysed ==
    /\ step = "results"
    /\ ops > 0
    /\ loans # InitialLoans
    /\ animateIn
    /\ Len(results) = 5

(***************************************************************************)
(* C23: in the results step, until the user clicks a card, selectedStrategy*)
(* (set by runAnalysis) is the strategyId of the entry rendered first, the *)
(* one with the "Best" badge, also when savings tie or are all 0; and      *)
(* while step is "results" selectedStrategy is always the strategyId of    *)
(* some entry of results.                                                  *)
(***************************************************************************)
SelectedIsShown ==
    step = "results" => \E i \in 1..Len(results) : results[i].strategyId = selectedStrategy

\* a step that ends in the results step and is not a click on a card
\* selects the first card if it starts outside the results step or with
\* the first card selected
FirstCardSelectedUntilClick ==
    (/\ step' = "results"
     /\ ~ \E i \in 1..Len(results) : SelectStrategy(i)
     /\ (step # "results" \/ selectedStrategy = results[1].strategyId))
        => (selectedStrategy' = results'[1].strategyId)

SelectedIsBestCard == [] SelectedIsShown /\ [][FirstCardSelectedUntilClick]_vars

\* an analysis whose five savings are all 0 has just selected the first card
AllSavingsTieAnalysed ==
    /\ step = "results"
    /\ analysis = "analysed"
    /\ \A i \in 1..Len(results) : results[i].savings = 0
    /\ selectedStrategy = results[1].strategyId
    /\ selectedStrategy = RESTRUCTURE_STRATEGIES[1].id

(***************************************************************************)
(* C24: in every state the App can reach no two loans of the portfolio     *)
(* have the same type; every loan's type is one of the five LOAN_TYPES, so *)
(* the portfolio never holds more than 5 loans.                            *)
(***************************************************************************)
LoanTypesDistinct ==
    /\ \A i, j \in 1..Len(loans) : (i # j) => (loans[i].type # loans[j].type)
    /\ \A i \in 1..Len(loans) :
          \E k \in 1..Len(LOAN_TYPES) : LOAN_TYPES[k].id = loans[i].type
    /\ Len(loans) <= 5

\* a loan has been added to the three the App starts with
FourthLoanAdded ==
    /\ Len(loans) = 4
    /\ ops > 0
    /\ loans[4].type \in {"vehicle", "machinery"}

(***************************************************************************)
(* Properties of the handlers (SpecHandlers)                               *)
(***************************************************************************)

\* the step is a call of the named handler
Called(handler) == ~ call.invoked /\ call'.invoked /\ call'.handler = handler

(***************************************************************************)
(* C25: addLoan(typeId) with the id of a LOAN_TYPES entry appends exactly  *)
(* one loan, with that type's default amount, rate and tenure, at the end  *)
(* and leaves the loans before it and their order as they were; with any   *)
(* other id it leaves the portfolio as it was; either way step, results    *)
(* and selectedStrategy are unchanged.                                     *)
(***************************************************************************)
AddLoanStep ==
    Called("addLoan") =>
        /\ \A k \in 1..Len(LOAN_TYPES) :
              (LOAN_TYPES[k].id = call'.typeId) =>
                  /\ Len(loans') = Len(loans) + 1
                  /\ SubSeq(loans', 1, Len(loans)) = loans
                  /\ loans'[Len(loans')] =
                        [type |-> call'.typeId, amount |-> LOAN_TYPES[k].defaultAmount,
                         rate |-> LOAN_TYPES[k].defaultRate,
                         tenure |-> LOAN_TYPES[k].defaultTenure]
        /\ (\A k \in 1..Len(LOAN_TYPES) : LOAN_TYPES[k].id # call'.typeId) => (loans' = loans)
        /\ step' = step
        /\ results' = results
        /\ selectedStrategy' = selectedStrategy

AddLoanAppendsOne == [][AddLoanStep]_vars

\* a vehicle loan added behind the three loans of a portfolio, earlier
\* results still in results
VehicleLoanAppended ==
    /\ call.invoked
    /\ call.handler = "addLoan"
    /\ call.typeId = "vehicle"
    /\ Len(call.loans) = 3
    /\ Len(loans) = 4
    /\ loans[4].type = "vehicle"
    /\ results # << >>

(***************************************************************************)
(* C26: removeLoan(idx) removes exactly the loan at position idx, the      *)
(* others keeping their relative order and their fields; updateLoan(idx,   *)
(* field, val) changes only the named field of the loan at position idx,   *)
(* to Number(val), and leaves that loan's other fields, every other loan   *)
(* and the portfolio's length and order as they were.                      *)
(***************************************************************************)
RemoveLoanStep ==
    Called("removeLoan") =>
        /\ Len(loans') = Len(loans) - 1
        /\ \A i \in 1..Len(loans') :
              loans'[i] = IF i < call'.idx THEN loans[i] ELSE loans[i + 1]

UpdateLoanStep ==
    Called("updateLoan") =>
        /\ Len(loans') = Len(loans)
        /\ \A i \in 1..Len(loans) : (i # call'.idx) => (loans'[i] = loans[i])
        /\ DOMAIN loans'[call'.idx] = DOMAIN loans[call'.idx]
        /\ \A f \in DOMAIN loans[call'.idx] :
              loans'[call'.idx][f] =
                  IF f = call'.field THEN fieldValue(f, Number(call'.val))
                  ELSE loans[call'.idx][f]
        /\ (call'.val = "") => (loans'[call'.idx][call'.field] = 0)
        /\ (call'.val = "024") => (loans'[call'.idx][call'.field] = 24)

RemoveAndUpdateTouchOneLoan == [][RemoveLoanStep /\ UpdateLoanStep]_vars

\* the second of three loans removed, the third now second
MiddleLoanRemoved ==
    /\ call.invoked
    /\ call.handler = "removeLoan"
    /\ call.idx = 2
    /\ Len(call.loans) = 3
    /\ loans = << call.loans[1], call.loans[3] >>

(***************************************************************************)
(* Ties in simulateRestructure (SpecEngine)                                *)
(***************************************************************************)

\* the positions of ls that hold the maximum rate
MaxRatePositions(ls) ==
    {i \in 1..Len(ls) : \A j \in 1..Len(ls) : ls[j].rate <= ls[i].rate}

(***************************************************************************)
(* C27: prepay_highest on a portfolio in which several loans share the     *)
(* maximum rate: the loan that gets the shrunk tenure max(6, round(0.65 *  *)
(* tenure)), and whose tenure gives newTenure, is the first of them in     *)
(* portfolio order, and no other loan's terms change.                      *)
(***************************************************************************)
PrepayTieTakesFirst ==
    (/\ call.invoked
     /\ call.strategyId = "prepay_highest"
     /\ Cardinality(MaxRatePositions(call.loans)) > 1)
    =>
        (LET ls == call.loans
             tied == MaxRatePositions(ls)
             first == CHOOSE i \in tied : \A j \in tied : i <= j
             shrunkTenure == Max(6, RoundDiv(ls[first].tenure * 65, 100))
             sorted == sortByRateDesc(ls)
             terms == prepayTerms(ls)
         IN  /\ sorted[1] = ls[first]
             /\ call.result.newTenure = shrunkTenure
             /\ terms[1] = [ls[first] EXCEPT !.tenure = shrunkTenure]
             /\ \A i \in 2..Len(ls) : terms[i] = sorted[i]
             /\ call.result.details[4] = ls[first].tenure - shrunkTenure
             /\ call.result.newInterest =
                    SumInterest([i \in 1..Len(ls) |->
                                    IF i = first THEN [ls[i] EXCEPT !.tenure = shrunkTenure]
                                    ELSE ls[i]]))

\* prepay_highest simulated on loans of which the second and the third share
\* the maximum rate, the earlier with twelve months to run, the later with four
PrepayOfTiedLoans ==
    /\ call.invoked
    /\ call.strategyId = "prepay_highest"
    /\ Len(call.loans) = 3
    /\ MaxRatePositions(call.loans) = {2, 3}
    /\ call.loans[2].tenure = 12
    /\ call.loans[3].tenure = 4
    /\ call.loans[2].amount > 0
    /\ call.loans[3].amount > 0
    /\ call.result.newTenure = 8

(***************************************************************************)
(* Properties of the App with its timers (SpecTimers)                      *)
(***************************************************************************)

(***************************************************************************)
(* C28: every runAnalysis on a non-empty portfolio sets animateIn to       *)
(* false; animateIn then becomes true once a timer callback has run, and   *)
(* stays true until the next runAnalysis; so the results view, drawn with  *)
(* opacity 0 while animateIn is false, always becomes visible in the end,  *)
(* also when Edit Loans or New Analysis and a second runAnalysis come      *)
(* before the first callback.                                              *)
(***************************************************************************)
AnalysisHidesResults == (analysis' = "analysed") => (step' = "results" /\ ~ animateIn')

OnlyAnalysisHidesResults == (animateIn /\ ~ animateIn') => (analysis' = "analysed")

ResultsBecomeVisible ==
    /\ [][AnalysisHidesResults /\ OnlyAnalysisHidesResults]_vars
    /\ (analysis = "analysed") ~> animateIn
    /\ (step = "results" /\ ~ animateIn) ~> animateIn

\* the results on display and visible after the callback of an earlier
\* analysis has run, with another callback still to run
VisibleWithTimerToCome ==
    /\ step = "results"
    /\ animateIn
    /\ timerPending
    /\ Len(results) = 5
====
